---- MODULE Spec2Model ----
(***************************************************************************)
(* Bomb Catcher: the round controller (Game), the score keeper             *)
(* (ScoreManager) and the bomb life cycle (Bomb) of src/src/index.ts,      *)
(* config-based variant (lines 487-752).                                   *)
(*                                                                         *)
(* Numbers.  spawnRate is kept in units of 0.005 bombs/s and speed in      *)
(* units of 0.01, the two increments of config.difficulty, so that the     *)
(* arithmetic is exact.  The vertical axis is a grid of rows: a bomb is    *)
(* created in row 0, every Game.update moves it one row down, and it is    *)
(* past the floor line when its row exceeds FloorY.                        *)
(*                                                                         *)
(* Animation.  Bomb.explode() starts the non-looping explosion animation;  *)
(* the renderer later reports its end exactly once by calling the bomb's   *)
(* onComplete, whatever the game is doing at that moment (the sprite is    *)
(* driven by the renderer's own ticker, not only by Game.update).          *)
(*                                                                         *)
(* Leaderboard.  The list in localStorage never flows back into a round    *)
(* (it is only formatted for the game-over screen), so the round           *)
(* specifications follow the calls of registerScore and what localStorage  *)
(* did (tally), and SpecScores follows the stored list itself.             *)
(*                                                                         *)
(* Other parts.  SpecBomb is the callback-based Bomb of                    *)
(* src/unnamed/part_001, SpecEarly the Game of src/unnamed/part_002,       *)
(* SpecLoad the asset loaders and the bootstrap.                           *)
(***************************************************************************)
EXTENDS Integers, FiniteSets, Sequences, TLC

\* ---- bounds of the model -------------------------------------------------
MaxBombs == 2
FloorY == 1
MaxScore == 2
LateScore == 838
LateWindow == 14
CanvasWidth == 6      \* config.canvasWidth, in grid cells
EntityFloorY == 8     \* Bomb.floorY of part_001, in grid cells
MaxY == 16            \* lowest row a bomb is followed to
MaxRise == 4          \* rows above the top edge a bomb is followed to
MaxCalls == 3         \* most invocations of one callback that are followed
MaxTurn == 5          \* most rotation steps away from the initial rotation
MaxPoints == 3        \* highest score that is registered
MaxTotal == 7         \* most scores the leaderboard history holds
BombIdleFrames == 2   \* config.assets.bombIdleFrames, scaled down
BombExplosionFrames == 2  \* config.assets.bombExplosionFrames, scaled down

\* ---- config (src/src/index.ts 250-288), fixed point ----------------------
InitialLives == 9
InitialSpawnRate == 160
InitialSpeed == 150
SpawnRateIncrease == 1
SpeedIncrease == 1
MaxSpawnRate == 1000
MaxSpeed == 1000
MaxEntries == 5

BombIds == 1..MaxBombs
NoScore == -1

VARIABLES
    screen,        \* UIManager.elements: "start", "game" or "gameover" screen
    isPlaying,     \* Game.isPlaying
    bombs,         \* Game.bombs, the bombs Game.update advances
    bomb,          \* the Bomb objects that can still act, by identity
    score,         \* ScoreManager._score
    lives,         \* ScoreManager._lives
    spawnRate,     \* Game.spawnRate
    speed,         \* Game.speed
    endGameCount,  \* runs of Game.endGame since the round was (re)started
    finalScore,    \* score handed to registerScore and showGameOverScreen
    lastOp,        \* the handler that ran last, and how it ended
    tally,         \* what happened in the round since it was (re)started
    entity,        \* the callback-based Bomb of src/unnamed/part_001
    storage,       \* the leaderboard item of localStorage
    loading,       \* the asset loader of the bootstrap
    updateListeners \* how many times Game.update is registered on app.ticker

vars == <<screen, isPlaying, bombs, bomb, score, lives, spawnRate, speed,
          endGameCount, finalScore, lastOp, tally, entity, storage, loading,
                   updateListeners>>

Min(a, b) == IF a < b THEN a ELSE b
Max(a, b) == IF a > b THEN a ELSE b

\* ---- Bomb ----------------------------------------------------------------
\* A slot that holds no object: never created, or completed and dropped.
NoBomb ==
    [alive |-> FALSE, hasExploded |-> FALSE, anim |-> "idle",
     onComplete |-> "none", y |-> 0, onStage |-> FALSE]

\* new Bomb(...) followed by stage.addChild: idle looping animation, row 0.
NewBomb ==
    [alive |-> TRUE, hasExploded |-> FALSE, anim |-> "idle",
     onComplete |-> "none", y |-> 0, onStage |-> TRUE]

\* Bomb.explode(): the first call starts the explosion animation.  (Faulty
\* variant first: the flag is not set.)
explodeNoFlag(o) == [o EXCEPT !.anim = "exploding"]

explode(o) ==
    IF o.hasExploded THEN o
    ELSE [o EXCEPT !.hasExploded = TRUE, !.anim = "exploding"]

\* Movement part of Bomb.update: no test of hasExploded, every bomb of the
\* list moves.  Rows past the floor line are all alike, so the row saturates.
\* (Faulty variant first: the bomb does not move.)
moveBombStuck(o) == o
moveBomb(o) == [o EXCEPT !.y = Min(o.y + 1, FloorY + 1)]

pastFloor(o) == o.y > FloorY

\* ---- ScoreManager --------------------------------------------------------
\* (faulty variant: no Math.max)
loseLifeUnclamped(l) == l - 1
\* ScoreManager.loseLife
loseLife(l) == Max(0, l - 1)

\* (faulty variant: < for <=)
isGameOverStrict(l) == l < 0
\* ScoreManager.isGameOver
isGameOver(l) == l <= 0

increaseScore(s) == s + 1

\* ---- Game ----------------------------------------------------------------
\* Game.handleBomb: explode the bomb and (re)assign its onComplete closure;
\* cb names the callback the closure carries.
handleBomb(o, cb) == [explode(o) EXCEPT !.onComplete = cb]

\* Game.explodeBomb, called by Bomb.update for a bomb past the floor line.
explodeBomb(o, playing) ==
    IF o.hasExploded \/ ~playing THEN o ELSE handleBomb(o, "floor")

\* Game.increaseDifficulty, one operator per field (faulty variants: no
\* Math.min).
increaseSpawnRateUnclamped(r) == r + SpawnRateIncrease
increaseSpawnRate(r) == Min(MaxSpawnRate, r + SpawnRateIncrease)

increaseSpeedUnclamped(v) == v + SpeedIncrease
increaseSpeed(v) == Min(MaxSpeed, v + SpeedIncrease)

\* The test that guards endGame in the floor-hit callback (line 643); the
\* faulty variant drops "&& this.isPlaying".
endGameDueUnguarded(l, playing) == isGameOver(l)
endGameDue(l, playing) == isGameOver(l) /\ playing

\* Bombs whose explosion animation is running with a catch callback armed.
PendingCatches ==
    Cardinality({b \in BombIds : bomb[b].anim = "exploding"
                                 /\ bomb[b].onComplete = "catch"})

\* The player stops catching when the score could leave the explored range.
ScoreRoom(p) ==
    \/ p < MaxScore
    \/ p >= LateScore /\ p < LateScore + LateWindow

\* An object that is out of the bombs list with its animation stopped can no
\* longer do anything: its slot is given back.
Collect(o, inList) ==
    IF o.alive /\ ~inList /\ o.anim = "stopped" THEN NoBomb ELSE o

\* The record of a round: bombs clicked while falling, bombs that passed
\* the floor line while falling, whether any other pointerdown reached a
\* bomb, and the calls of ScoreManager.registerScore.  The two counts are
\* kept for as long as no other pointerdown has happened in the round.
\* fault is what localStorage did when endGame used it.
ZeroTally ==
    [caught |-> 0, missed |-> 0, extra |-> FALSE, registered |-> 0,
     fault |-> "none"]

tallyCatch(t) == IF t.extra THEN t ELSE [t EXCEPT !.caught = @ + 1]
tallyMiss(t, n) == IF t.extra THEN t ELSE [t EXCEPT !.missed = @ + n]
tallyOther(t) == [t EXCEPT !.caught = 0, !.missed = 0, !.extra = TRUE]

\* ScoreManager.registerScore as the tally sees it.  (Faulty variant first:
\* the score is never registered.)
registerScoreNever(t) == t
registerScore(t) == [t EXCEPT !.registered = @ + 1]

\* What localStorage may do while endGame runs: work, throw in getItem
\* (registerScore and getLeaderboard both read), throw in setItem.
StorageFaults == {"none", "getItem", "setItem"}

\* Whether the exception leaves endGame: registerScore and getLeaderboard
\* each catch what their body throws (lines 514-522, 527-534).  (Faulty
\* variant first: nothing is caught.)
endGameThrowsUncaught(f) == f # "none"
endGameThrows(f) == FALSE

\* The callback-based Bomb right after its constructor: not yet initialized,
\* at the origin, no animation playing, listening to pointerdown.
\* catches, floorHits and finished count the invocations of onCatch,
\* onHitFloor and onExplosionComplete since the last initialize;
\* explodeCalled tells whether explode() has been called since then and
\* plays how often it started the explosion animation; vx0 and vy0 are the
\* velocity initialize computed, dt the deltaTime of the last update.
NewEntity ==
    [x |-> 0, y |-> 0, vx |-> 0, vy |-> 0, rotation |-> 0,
     hasExploded |-> FALSE, eventMode |-> "static", anim |-> "stopped",
     catches |-> 0, floorHits |-> 0, finished |-> 0, explodeCalled |-> FALSE,
     plays |-> 0, vx0 |-> 0, vy0 |-> 0, dt |-> 0]

\* ---- the leaderboard in localStorage (ScoreManager, lines 513-541) -------
\* The item under config.leaderboard.storageKey: absent, or the JSON text of
\* a list of scores.  Scores are non-negative integers, which JSON.stringify
\* and JSON.parse give back as they were.
NoItem == [present |-> FALSE, json |-> <<>>]
stringify(scores) == [present |-> TRUE, json |-> scores]

\* ScoreManager.loadScores.
loadScores(item) == IF item.present THEN item.json ELSE <<>>

\* scores.sort((a, b) => b - a).
insertDescending(sorted, v) ==
    LET k == Cardinality({i \in DOMAIN sorted : sorted[i] >= v})
    IN  SubSeq(sorted, 1, k) \o <<v>> \o SubSeq(sorted, k + 1, Len(sorted))

RECURSIVE sortDescending(_)
sortDescending(scores) ==
    IF scores = <<>> THEN <<>>
    ELSE insertDescending(sortDescending(Tail(scores)), Head(scores))

\* scores.slice(0, config.leaderboard.maxEntries).  (Faulty variant first:
\* nothing is cut off.)
sliceAll(scores) == scores
slice(scores) == SubSeq(scores, 1, Min(Len(scores), MaxEntries))

\* The item ScoreManager.registerScore writes when the score is s.
savedScores(item, s) ==
    stringify(slice(sortDescending(Append(loadScores(item), s))))

\* How often each score has been put on the leaderboard so far.
NoneRegistered == [v \in 0..MaxPoints |-> 0]
CountOf(scores, v) == Cardinality({i \in DOMAIN scores : scores[i] = v})
EmptyStorage == [item |-> NoItem, all |-> NoneRegistered]

\* ---- the assets (AssetLoader.load, lines 316-351; loadAssets of assets.ts)
EmptyTexture == 0
TextureIds == 1..(BombIdleFrames + BombExplosionFrames + 1)
Loaders == {"AssetLoader.load", "loadAssets"}

\* The value of the catch block.
Fallback ==
    [idle |-> <<>>, explosion |-> <<>>, floor |-> EmptyTexture, sounds |-> {}]

\* The value of the try block: the textures by kind, the three sounds.
Loaded ==
    [idle |-> [i \in 1..BombIdleFrames |-> i],
     explosion |-> [i \in 1..BombExplosionFrames |-> BombIdleFrames + i],
     floor |-> BombIdleFrames + BombExplosionFrames + 1,
     sounds |-> {"catch", "explode", "gameover"}]

\* The loader before any texture has settled, and after all have loaded.
StartLoading(ld) ==
    [loader |-> ld, textures |-> [t \in TextureIds |-> "pending"],
     outcome |-> "pending", assets |-> Fallback]
AssetsLoaded ==
    [loader |-> "AssetLoader.load",
     textures |-> [t \in TextureIds |-> "loaded"],
     outcome |-> "resolved", assets |-> Loaded]

\* The fields of a Game as its constructor leaves them; scr is what the
\* page shows.
GameFields(scr) ==
    /\ tally = ZeroTally
    /\ entity = NewEntity
    /\ screen = scr
    /\ isPlaying = FALSE
    /\ bombs = {}
    /\ bomb = [b \in BombIds |-> NoBomb]
    /\ score = 0
    /\ lives = InitialLives
    /\ spawnRate = InitialSpawnRate
    /\ speed = InitialSpeed
    /\ endGameCount = 0
    /\ finalScore = NoScore
    /\ lastOp = "none"
    /\ updateListeners = 0

Init ==
    /\ GameFields("start")
    /\ storage = EmptyStorage
    /\ loading = AssetsLoaded

\* UIManager.elements after ui.clear() and showGameUI: clear() destroys every
\* element of the screen that was shown, its button included.  (Faulty
\* variant first: clear() destroys nothing, the old screen stays.)
clearedKept(scr) == scr
cleared(scr) == "game"

\* Game.resetState: ScoreManager.reset, difficulty back to the initial
\* values, ui.clear() and showGameUI.  (Faulty variant first: spawnRate and
\* speed are not reset.)
resetStateKeepDifficulty ==
    /\ score' = 0
    /\ lives' = InitialLives
    /\ UNCHANGED <<spawnRate, speed>>
    /\ screen' = cleared(screen)
    /\ finalScore' = NoScore

resetState ==
    /\ score' = 0
    /\ lives' = InitialLives
    /\ spawnRate' = InitialSpawnRate
    /\ speed' = InitialSpeed
    /\ screen' = cleared(screen)
    /\ finalScore' = NoScore

\* pointerdown on the start button, which is there while the start screen
\* is shown: Game.startGame resets the state and registers Game.update on
\* the ticker.
startGame ==
    /\ screen = "start"
    /\ resetState
    /\ isPlaying' = TRUE
    /\ endGameCount' = 0
    /\ updateListeners' = updateListeners + 1
    /\ lastOp' = "startGame"
    /\ tally' = ZeroTally
    /\ UNCHANGED <<bombs, bomb, entity, storage, loading>>

\* The early return of Game.update (line 585); the faulty variant never
\* returns early.
updateNeverIdle(playing) == FALSE
updateIsIdle(playing) == ~playing

\* The bombs after the forEach of Game.update: every bomb of the list has
\* run Bomb.update.
updatedBombs ==
    [b \in BombIds |->
       IF b \in bombs
       THEN LET m == moveBomb(bomb[b])
            IN  IF pastFloor(m) THEN explodeBomb(m, isPlaying) ELSE m
       ELSE bomb[b]]

\* Bombs that explodeBomb has just taken out of Falling.
FloorHits(after) ==
    Cardinality({b \in BombIds : ~bomb[b].hasExploded
                                 /\ after[b].onComplete = "floor"})

\* What Game.update does to the bombs: the forEach, then spawnBomb when the
\* random draw says so (spawnBomb tests isPlaying again, line 591).
updateBombs(spawn) ==
    IF updateIsIdle(isPlaying)
    THEN /\ spawn = FALSE
         /\ UNCHANGED <<bombs, bomb, tally>>
    ELSE LET moved == updatedBombs
         IN  /\ tally' = tallyMiss(tally, FloorHits(moved))
             /\ IF spawn /\ isPlaying
                THEN \E n \in BombIds :
                        /\ ~bomb[n].alive
                        /\ bomb' = [moved EXCEPT ![n] = NewBomb]
                        /\ bombs' = bombs \cup {n}
                ELSE /\ spawn = FALSE
                     /\ bomb' = moved
                     /\ UNCHANGED bombs

\* Faulty variant of update: the difficulty is raised on every frame.
updateHarder(spawn) ==
    /\ updateListeners > 0
    /\ updateBombs(spawn)
    /\ spawnRate' = IF isPlaying THEN increaseSpawnRate(spawnRate)
                    ELSE spawnRate
    /\ lastOp' = "update"
    /\ UNCHANGED <<screen, isPlaying, score, lives, speed,
                   endGameCount, finalScore, entity, storage, loading,
                   updateListeners>>

\* One call of Game.update by the application ticker, which calls every
\* registered listener once per frame: Game.update, with Bomb.update for
\* every bomb of the list and, when the random draw says so, spawnBomb.
update(spawn) ==
    /\ updateListeners > 0
    /\ updateBombs(spawn)
    /\ lastOp' = "update"
    /\ UNCHANGED <<screen, isPlaying, score, lives, spawnRate, speed,
                   endGameCount, finalScore, entity, storage, loading,
                   updateListeners>>

\* Faulty variant of catchBomb: the point and the difficulty step are given
\* at the click itself instead of in the onComplete closure.
catchBombEager(b) ==
    /\ bomb[b].alive /\ bomb[b].onStage
    /\ ScoreRoom(score + PendingCatches)
    /\ isPlaying
    /\ bomb' = [bomb EXCEPT ![b] = handleBomb(bomb[b], "none")]
    /\ score' = increaseScore(score)
    /\ spawnRate' = increaseSpawnRate(spawnRate)
    /\ speed' = increaseSpeed(speed)
    /\ lastOp' = IF ~bomb[b].hasExploded THEN "catchBomb"
                 ELSE "catchBomb:again"
    /\ tally' = IF ~bomb[b].hasExploded
                THEN tallyCatch(tally)
                ELSE tallyOther(tally)
    /\ UNCHANGED <<screen, isPlaying, bombs, lives, endGameCount, finalScore,
                   entity, storage, loading,
                   updateListeners>>

\* pointerdown on a bomb that is on the stage: Game.catchBomb.
catchBomb(b) ==
    /\ bomb[b].alive /\ bomb[b].onStage
    /\ ScoreRoom(score + PendingCatches)
    /\ IF ~isPlaying
       THEN /\ UNCHANGED bomb
            /\ lastOp' = "catchBomb:ignored"
       ELSE /\ bomb' = [bomb EXCEPT ![b] = handleBomb(bomb[b], "catch")]
            /\ lastOp' = IF ~bomb[b].hasExploded THEN "catchBomb"
                         ELSE IF bomb[b].onComplete = "catch"
                              THEN "catchBomb:again"
                              ELSE "catchBomb:late"
    /\ tally' = IF isPlaying /\ ~bomb[b].hasExploded
                THEN tallyCatch(tally)
                ELSE tallyOther(tally)
    /\ UNCHANGED <<screen, isPlaying, bombs, score, lives, spawnRate, speed,
                   endGameCount, finalScore, entity, storage, loading,
                   updateListeners>>

\* The explosion animation of bomb b ends: the renderer calls b.onComplete.
\* The closure set by handleBomb removes the bomb from the stage and from
\* the list, then runs the callback of catchBomb or of explodeBomb.
animationComplete(b) ==
    /\ bomb[b].alive /\ bomb[b].anim = "exploding"
    /\ LET cb == bomb[b].onComplete
           done == [bomb[b] EXCEPT !.anim = "stopped"]
       IN
       CASE cb = "none" ->
              /\ bomb' = [bomb EXCEPT ![b] = Collect(done, b \in bombs)]
              /\ lastOp' = "complete"
              /\ UNCHANGED <<screen, isPlaying, bombs, score, lives,
                             spawnRate, speed, endGameCount, finalScore,
                             tally, entity, storage, loading,
                   updateListeners>>
         [] cb = "catch" ->
              /\ bomb' = [bomb EXCEPT ![b] = NoBomb]
              /\ bombs' = bombs \ {b}
              /\ score' = increaseScore(score)
              /\ spawnRate' = increaseSpawnRate(spawnRate)
              /\ speed' = increaseSpeed(speed)
              /\ lastOp' = "complete:catch"
              /\ UNCHANGED <<screen, isPlaying, lives, endGameCount,
                             finalScore, tally, entity, storage, loading,
                   updateListeners>>
         [] cb = "floor" ->
              LET l == loseLife(lives)
                  rest == bombs \ {b}
              IN  /\ lives' = l
                  /\ bombs' = rest
                  /\ IF endGameDue(l, isPlaying)
                     THEN \* Game.endGame; f is what localStorage does
                          \E f \in StorageFaults :
                          /\ isPlaying' = FALSE
                          /\ bomb' = [c \in BombIds |->
                                        IF c = b THEN NoBomb
                                        ELSE IF c \in rest
                                             THEN explode(bomb[c])
                                             ELSE bomb[c]]
                          /\ tally' = [registerScore(tally)
                                         EXCEPT !.fault = f]
                          /\ IF endGameThrows(f)
                             THEN UNCHANGED <<finalScore, screen>>
                             ELSE /\ finalScore' = score
                                  /\ screen' = "gameover"
                          /\ endGameCount' = endGameCount + 1
                          /\ lastOp' = "complete:endGame"
                     ELSE /\ bomb' = [bomb EXCEPT ![b] = NoBomb]
                          /\ lastOp' = "complete:floor"
                          /\ UNCHANGED <<isPlaying, finalScore, screen,
                                         endGameCount, tally>>
                  /\ UNCHANGED <<score, spawnRate, speed, entity, storage, loading,
                   updateListeners>>

\* Faulty variant of restartGame: the bombs list is kept.
restartGameKeepBombs ==
    /\ screen = "gameover"
    /\ resetState
    /\ isPlaying' = TRUE
    /\ endGameCount' = 0
    /\ lastOp' = "restartGame"
    /\ tally' = ZeroTally
    /\ UNCHANGED <<bombs, bomb, entity, storage, loading,
                   updateListeners>>

\* pointerdown on the replay button: Game.restartGame.  The list is
\* replaced by an empty one; the objects of the old list stay on the stage.
restartGame ==
    /\ screen = "gameover"
    /\ bombs' = {}
    /\ bomb' = [b \in BombIds |-> Collect(bomb[b], FALSE)]
    /\ resetState
    /\ isPlaying' = TRUE
    /\ endGameCount' = 0
    /\ lastOp' = "restartGame"
    /\ tally' = ZeroTally
    /\ UNCHANGED <<entity, storage, loading,
                   updateListeners>>

Next ==
    \/ startGame
    \/ \E spawn \in BOOLEAN : update(spawn)
    \/ \E b \in BombIds : catchBomb(b)
    \/ \E b \in BombIds : animationComplete(b)
    \/ restartGame

Spec == Init /\ [][Next]_vars

\* The same game with the ticker running: startGame registers Game.update on
\* app.ticker (line 580), which calls it on every frame from then on, so a
\* frame that would change something is not postponed forever.
SpecTicking == Spec /\ WF_vars(\E spawn \in BOOLEAN : update(spawn))

\* ---- a long round --------------------------------------------------------
\* One clean catch, three handlers in a row with nothing in between: update
\* spawns a bomb on an empty stage, the player clicks it, its animation
\* completes.  It carries a round from MaxScore to LateScore points, where
\* the difficulty is about to reach its maxima.  The tally does not follow
\* it: the round counts as one with other events.
cleanCatch ==
    /\ isPlaying
    /\ \A b \in BombIds : ~bomb[b].alive
    /\ score >= MaxScore /\ score < LateScore
    /\ score' = increaseScore(score)
    /\ spawnRate' = increaseSpawnRate(spawnRate)
    /\ speed' = increaseSpeed(speed)
    /\ lastOp' = "complete:catch"
    /\ tally' = tallyOther(tally)
    /\ UNCHANGED <<screen, isPlaying, bombs, bomb, lives, endGameCount,
                   finalScore, entity, storage, loading,
                   updateListeners>>

NextLate ==
    \/ Next
    \/ cleanCatch

SpecLate == Init /\ [][NextLate]_vars

\* ==== The callback-based Bomb (src/unnamed/part_001, lines 302-415) ========
\* One Bomb object and a caller that may do anything with it: initialize,
\* update, explode, pointerdown events, in any order.  Lengths are in grid
\* cells and deltaTime in whole frames.

\* Directions of fall as (sin, cos) of angleDegrees, in fifths: straight
\* down and 36.87 degrees to either side.
Angles == { [sin |-> -3, cos |-> 4], [sin |-> 0, cos |-> 5],
            [sin |-> 3, cos |-> 4] }
Speeds == {5}
DeltaTimes == {-1, 0, 1, 2}

\* Math.random() * Math.PI * 2, in units of config.bombRotationSpeed
\* (0.01 rad): zero and half a turn.
Rotations == {0, 314}

\* What a callback supplied to the constructor does with the bomb before it
\* returns: nothing, or a call of explode().
Reactions == {"return", "explode"}

\* Bomb.explode().  (Faulty variant first: no test of hasExploded, every
\* call starts the animation again.)
entityExplodeAgain(e) ==
    [e EXCEPT !.hasExploded = TRUE, !.anim = "exploding",
              !.explodeCalled = TRUE, !.plays = @ + 1]

entityExplode(e) ==
    IF e.hasExploded THEN [e EXCEPT !.explodeCalled = TRUE]
    ELSE [e EXCEPT !.hasExploded = TRUE, !.anim = "exploding",
                   !.explodeCalled = TRUE, !.plays = @ + 1]

react(e, r) == IF r = "explode" THEN entityExplode(e) ELSE e

\* this.y += this.vy * deltaTime.  (Faulty variant first: the bomb does
\* not fall.)
advanceYStalled(e, dt) == e.y
advanceY(e, dt) == e.y + e.vy * dt

\* The x the wall bounce assigns when nx is outside [0, canvasWidth].
\* (Faulty variant first: x is left where it went.)
atWallUnclamped(nx) == nx
atWall(nx) == IF nx < 0 THEN 0 ELSE CanvasWidth

\* Position update, rotation and wall bounce of Bomb.update.  (Faulty
\* variant first: the bounce takes half of the speed.)
integrateDamped(e, dt) ==
    LET nx == e.x + e.vx * dt
        ny == advanceY(e, dt)
        nr == e.rotation + dt
    IN  IF nx < 0
        THEN [e EXCEPT !.x = atWall(nx), !.vx = (-e.vx) \div 2, !.y = ny,
                       !.rotation = nr]
        ELSE IF nx > CanvasWidth
             THEN [e EXCEPT !.x = atWall(nx), !.vx = (-e.vx) \div 2,
                            !.y = ny, !.rotation = nr]
             ELSE [e EXCEPT !.x = nx, !.y = ny, !.rotation = nr]

integrate(e, dt) ==
    LET nx == e.x + e.vx * dt
        ny == advanceY(e, dt)
        nr == e.rotation + dt
    IN  IF nx < 0
        THEN [e EXCEPT !.x = atWall(nx), !.vx = -e.vx, !.y = ny,
                       !.rotation = nr]
        ELSE IF nx > CanvasWidth
             THEN [e EXCEPT !.x = atWall(nx), !.vx = -e.vx, !.y = ny,
                            !.rotation = nr]
             ELSE [e EXCEPT !.x = nx, !.y = ny, !.rotation = nr]

\* Bomb.update(delta); r is what the onHitFloor handler does.  (Faulty
\* variant first: no test of hasExploded.)
entityUpdateAlways(e, dt, r) ==
    LET m == integrate(e, dt)
    IN  IF m.y >= EntityFloorY
        THEN react([m EXCEPT !.floorHits = @ + 1], r)
        ELSE m

entityUpdate(e, dt, r) ==
    IF e.hasExploded THEN e
    ELSE LET m == integrate(e, dt)
         IN  IF m.y >= EntityFloorY
             THEN react([m EXCEPT !.floorHits = @ + 1], r)
             ELSE m

\* Bomb.handleClick; r is what the onCatch handler does.  (Faulty variant
\* first: the bomb keeps listening.)
handleClickStillListening(e, r) ==
    IF ~e.hasExploded
    THEN react([e EXCEPT !.catches = @ + 1], r)
    ELSE e

handleClick(e, r) ==
    IF ~e.hasExploded
    THEN [react([e EXCEPT !.catches = @ + 1], r) EXCEPT !.eventMode = "none"]
    ELSE e

gameVars == <<screen, isPlaying, bombs, bomb, score, lives, spawnRate, speed,
              endGameCount, finalScore, tally, storage, loading,
                   updateListeners>>

\* The state bomb.initialize(x, y, speed, angleDegrees) leaves; rot is the
\* random rotation it draws.
initialized(e, x0, y0, s, a, rot) ==
    [x |-> x0, y |-> y0,
     vx |-> (s * a.sin) \div 5, vy |-> (s * a.cos) \div 5,
     rotation |-> rot,
     hasExploded |-> FALSE, eventMode |-> "static",
     anim |-> "looping", catches |-> 0, floorHits |-> 0,
     finished |-> 0, explodeCalled |-> FALSE, plays |-> 0,
     vx0 |-> (s * a.sin) \div 5, vy0 |-> (s * a.cos) \div 5, dt |-> 0]

\* bomb.initialize(x, y, speed, angleDegrees).
initialize(x0, y0, s, a, rot) ==
    /\ entity' = initialized(entity, x0, y0, s, a, rot)
    /\ lastOp' = "initialize"
    /\ UNCHANGED gameVars

\* bomb.update(delta) with delta.deltaTime = dt.
bombUpdate(dt, r) ==
    /\ entity' = [entityUpdate(entity, dt, r) EXCEPT !.dt = dt]
    /\ entity'.y \in -MaxRise..MaxY
    /\ \E rot \in Rotations : entity'.rotation - rot \in -MaxTurn..MaxTurn
    /\ entity'.floorHits <= MaxCalls
    /\ entity'.plays <= MaxCalls
    /\ r = "explode" => entity'.floorHits > entity.floorHits
    /\ lastOp' = IF entity.hasExploded THEN "Bomb.update:exploded"
                 ELSE "Bomb.update"
    /\ UNCHANGED gameVars

\* bomb.explode() called from outside the callbacks.
bombExplode ==
    /\ entity' = entityExplode(entity)
    /\ entity'.plays <= MaxCalls
    /\ lastOp' = "Bomb.explode"
    /\ UNCHANGED gameVars

\* A pointerdown event on the bomb: the renderer delivers it to handleClick
\* only while eventMode is 'static'.
pointerdown(r) ==
    /\ IF entity.eventMode = "static"
       THEN /\ entity' = handleClick(entity, r)
            /\ entity'.plays <= MaxCalls
            /\ r = "explode" => ~entity.hasExploded
            /\ lastOp' = IF entity.hasExploded THEN "pointerdown:exploded"
                         ELSE "pointerdown"
       ELSE /\ r = "return"
            /\ lastOp' = "pointerdown:ignored"
            /\ UNCHANGED entity
    /\ UNCHANGED gameVars

\* this.onComplete, the closure the constructor installs.  (Faulty variant
\* first: no test of hasExploded.)
entityOnCompleteUnguarded(e) == [e EXCEPT !.finished = @ + 1]

entityOnComplete(e) ==
    IF e.hasExploded THEN [e EXCEPT !.finished = @ + 1] ELSE e

\* The explosion animation plays its last frame and stops: the sprite
\* calls this.onComplete.
explosionComplete ==
    /\ entity.anim = "exploding"
    /\ entity' = entityOnComplete([entity EXCEPT !.anim = "stopped"])
    /\ entity'.finished <= MaxCalls
    /\ lastOp' = "onComplete"
    /\ UNCHANGED gameVars

\* onComplete called on a bomb that has not exploded: the field is public
\* and the sprite calls it for whatever animation ends.
strayComplete ==
    /\ ~entity.hasExploded
    /\ entity' = entityOnComplete(entity)
    /\ entity'.finished <= MaxCalls
    /\ lastOp' = "onComplete:stray"
    /\ UNCHANGED gameVars

NextBomb ==
    \/ \E x0 \in 0..CanvasWidth, s \in Speeds, a \in Angles,
          rot \in Rotations :
          initialize(x0, 0, s, a, rot)
    \/ \E dt \in DeltaTimes, r \in Reactions : bombUpdate(dt, r)
    \/ bombExplode
    \/ \E r \in Reactions : pointerdown(r)
    \/ explosionComplete
    \/ strayComplete

SpecBomb == Init /\ [][NextBomb]_vars

\* ==== The leaderboard (ScoreManager.registerScore, lines 513-523) ========
\* The ScoreManager alone, asked to register any score, on a store that
\* starts absent or with a valid list.
ValidLists ==
    {l \in UNION {[1..n -> 0..MaxPoints] : n \in 0..MaxEntries} :
        \A i \in 1..(Len(l) - 1) : l[i] >= l[i + 1]}

StartStorages ==
    {EmptyStorage} \cup
    {[item |-> stringify(l),
      all |-> [v \in 0..MaxPoints |-> CountOf(l, v)]] : l \in ValidLists}

TotalRegistered ==
    LET RECURSIVE upTo(_)
        upTo(v) == IF v < 0 THEN 0 ELSE storage.all[v] + upTo(v - 1)
    IN  upTo(MaxPoints)

InitScores ==
    /\ GameFields("start")
    /\ loading = AssetsLoaded
    /\ storage \in StartStorages

\* scoreManager.registerScore() with _score = s.
registerScoreOf(s) ==
    /\ TotalRegistered < MaxTotal
    /\ storage' = [item |-> savedScores(storage.item, s),
                   all |-> [storage.all EXCEPT ![s] = @ + 1]]
    /\ lastOp' = "registerScore"
    /\ UNCHANGED <<screen, isPlaying, bombs, bomb, score, lives, spawnRate,
                   speed, endGameCount, finalScore, tally, entity, loading,
                   updateListeners>>

NextScores == \E s \in 0..MaxPoints : registerScoreOf(s)

SpecScores == InitScores /\ [][NextScores]_vars

\* ==== Loading (AssetLoader.load, lines 316-351; loadAssets of ===========
\* ==== src/src/assets.ts; the bootstrap of lines 754-765) ==================
\* The page before there is a Game: the texture loads settle one by one,
\* each with success or with a rejection, and the loader settles when the
\* await of its try block does.
InitLoad ==
    /\ GameFields("loading")
    /\ storage = EmptyStorage
    /\ loading \in {StartLoading(ld) : ld \in Loaders}

noGame == <<isPlaying, bombs, bomb, score, lives, spawnRate, speed,
            endGameCount, finalScore, tally, entity, storage,
            updateListeners>>

\* Assets.load of texture t fulfils.
textureLoads(t) ==
    /\ loading.textures[t] = "pending"
    /\ loading' = [loading EXCEPT !.textures[t] = "loaded"]
    /\ lastOp' = "textureLoads"
    /\ UNCHANGED <<screen, noGame>>

\* Assets.load of texture t rejects.
textureRejects(t) ==
    /\ loading.textures[t] = "pending"
    /\ loading' = [loading EXCEPT !.textures[t] = "rejected"]
    /\ lastOp' = "textureRejects"
    /\ UNCHANGED <<screen, noGame>>

\* How the promise of the loader settles: failed tells whether the try
\* block threw.  (Faulty variant first: no catch block.)
settledUncaught(failed) ==
    IF failed THEN [outcome |-> "rejected", assets |-> Fallback]
    ELSE [outcome |-> "resolved", assets |-> Loaded]

settled(failed) ==
    IF failed THEN [outcome |-> "resolved", assets |-> Fallback]
    ELSE [outcome |-> "resolved", assets |-> Loaded]

\* The await of the try block is over: it throws as soon as one texture
\* has rejected and goes on when all have loaded; soundFails tells whether
\* Sound.from throws after that.
loadSettles(soundFails) ==
    /\ loading.outcome = "pending"
    /\ LET rejected == \E t \in TextureIds : loading.textures[t] = "rejected"
           loaded == \A t \in TextureIds : loading.textures[t] = "loaded"
           s == settled(rejected \/ soundFails)
       IN  /\ rejected \/ loaded
           /\ rejected => ~soundFails
           /\ loading' = [loading EXCEPT !.outcome = s.outcome,
                                         !.assets = s.assets]
    /\ lastOp' = "loadSettles"
    /\ UNCHANGED <<screen, noGame>>

\* The rest of the bootstrap: new Game(app, assets) shows the start screen.
bootstrap ==
    /\ screen = "loading"
    /\ loading.loader = "AssetLoader.load"
    /\ loading.outcome = "resolved"
    /\ screen' = "start"
    /\ lastOp' = "bootstrap"
    /\ UNCHANGED <<noGame, loading>>

NextLoad ==
    \/ \E t \in TextureIds : textureLoads(t)
    \/ \E t \in TextureIds : textureRejects(t)
    \/ \E soundFails \in BOOLEAN : loadSettles(soundFails)
    \/ bootstrap

SpecLoad == InitLoad /\ [][NextLoad]_vars

\* ==== The earlier Game (src/unnamed/part_002; the first Game of ===========
\* ==== src/src/index.ts, lines 4-171, has the same handlers) ===============
\* spawnRate in units of 0.02, speed in units of 0.05 (CONFIG increases).
EarlyInitialSpawnRate == 50
EarlyInitialSpeed == 40

InitEarly ==
    /\ updateListeners = 0
    /\ storage = EmptyStorage
    /\ loading = AssetsLoaded
    /\ tally = ZeroTally
    /\ entity = NewEntity
    /\ screen = "start"
    /\ isPlaying = FALSE
    /\ bombs = {}
    /\ bomb = [b \in BombIds |-> NoBomb]
    /\ score = 0
    /\ lives = InitialLives
    /\ spawnRate = EarlyInitialSpawnRate
    /\ speed = EarlyInitialSpeed
    /\ endGameCount = 0
    /\ finalScore = NoScore
    /\ lastOp = "none"

\* Game.resetState of part_002.
resetStateEarly ==
    /\ lives' = InitialLives
    /\ score' = 0
    /\ spawnRate' = EarlyInitialSpawnRate
    /\ speed' = EarlyInitialSpeed

\* Game.explodeBomb of part_002: only the bomb's own flag is tested.
explodeBombEarly(o) ==
    IF o.hasExploded THEN o ELSE handleBomb(o, "floor")

\* pointerdown on the Start button.
startGameEarly ==
    /\ screen = "start"
    /\ resetStateEarly
    /\ screen' = "game"
    /\ isPlaying' = TRUE
    /\ updateListeners' = updateListeners + 1
    /\ lastOp' = "startGame"
    /\ UNCHANGED <<bombs, bomb, endGameCount, finalScore, tally, entity,
                   storage, loading>>

\* Game.update of part_002.
updateEarly(spawn) ==
    /\ updateListeners > 0
    /\ IF ~isPlaying
       THEN /\ spawn = FALSE
            /\ UNCHANGED <<bombs, bomb>>
       ELSE LET moved == [b \in BombIds |->
                            IF b \in bombs
                            THEN LET m == moveBomb(bomb[b])
                                 IN  IF pastFloor(m)
                                     THEN explodeBombEarly(m)
                                     ELSE m
                            ELSE bomb[b]]
            IN  IF spawn
                THEN \E n \in BombIds :
                        /\ ~bomb[n].alive
                        /\ bomb' = [moved EXCEPT ![n] = NewBomb]
                        /\ bombs' = bombs \cup {n}
                ELSE /\ bomb' = moved
                     /\ UNCHANGED bombs
    /\ lastOp' = "update"
    /\ UNCHANGED <<screen, isPlaying, score, lives, spawnRate, speed,
                   endGameCount, finalScore, tally, entity, storage, loading,
                   updateListeners>>

\* pointerdown on a bomb: Game.catchBomb of part_002, no test at all.
catchBombEarly(b) ==
    /\ bomb[b].alive /\ bomb[b].onStage
    /\ ScoreRoom(score + PendingCatches)
    /\ bomb' = [bomb EXCEPT ![b] = handleBomb(bomb[b], "catch")]
    /\ lastOp' = IF ~bomb[b].hasExploded THEN "catchBomb"
                 ELSE IF bomb[b].onComplete = "catch"
                      THEN "catchBomb:again"
                      ELSE "catchBomb:late"
    /\ UNCHANGED <<screen, isPlaying, bombs, score, lives, spawnRate, speed,
                   endGameCount, finalScore, tally, entity, storage, loading,
                   updateListeners>>

\* The explosion animation of bomb b ends (part_002, handleBomb closure,
\* explodeBomb and catchBomb callbacks, endGame).
animationCompleteEarly(b) ==
    /\ bomb[b].alive /\ bomb[b].anim = "exploding"
    /\ LET cb == bomb[b].onComplete
           done == [bomb[b] EXCEPT !.anim = "stopped"]
       IN
       CASE cb = "none" ->
              /\ bomb' = [bomb EXCEPT ![b] = Collect(done, b \in bombs)]
              /\ lastOp' = "complete"
              /\ UNCHANGED <<screen, isPlaying, bombs, score, lives,
                             spawnRate, speed, endGameCount, finalScore,
                             tally, entity, storage, loading,
                   updateListeners>>
         [] cb = "catch" ->
              /\ bomb' = [bomb EXCEPT ![b] = NoBomb]
              /\ bombs' = bombs \ {b}
              /\ score' = score + 1
              /\ spawnRate' = spawnRate + 1
              /\ speed' = speed + 1
              /\ lastOp' = "complete:catch"
              /\ UNCHANGED <<screen, isPlaying, lives, endGameCount,
                             finalScore, tally, entity, storage, loading,
                   updateListeners>>
         [] cb = "floor" ->
              LET l == Max(0, lives - 1)
                  rest == bombs \ {b}
              IN  /\ lives' = l
                  /\ bombs' = rest
                  /\ IF l <= 0
                     THEN \* Game.endGame of part_002: one more game-over
                          \* text and Replay button on the stage
                          /\ bomb' = [c \in BombIds |->
                                        IF c = b THEN NoBomb
                                        ELSE IF c \in rest
                                             THEN explode(bomb[c])
                                             ELSE bomb[c]]
                          /\ isPlaying' = FALSE
                          /\ finalScore' = score
                          /\ screen' = "gameover"
                          /\ endGameCount' = endGameCount + 1
                          /\ lastOp' = "complete:endGame"
                     ELSE /\ bomb' = [bomb EXCEPT ![b] = NoBomb]
                          /\ lastOp' = "complete:floor"
                          /\ UNCHANGED <<isPlaying, finalScore, screen,
                                         endGameCount>>
                  /\ UNCHANGED <<score, spawnRate, speed, tally, entity, storage, loading,
                   updateListeners>>

\* pointerdown on a Replay button: Game.restartGame of part_002.  ui.clear()
\* empties the stage, bombs included.
restartGameEarly ==
    /\ screen = "gameover"
    /\ bombs' = {}
    /\ bomb' = [b \in BombIds |->
                  Collect([bomb[b] EXCEPT !.onStage = FALSE], FALSE)]
    /\ resetStateEarly
    /\ screen' = "game"
    /\ finalScore' = NoScore
    /\ endGameCount' = 0
    /\ isPlaying' = TRUE
    /\ lastOp' = "restartGame"
    /\ UNCHANGED <<tally, entity, storage, loading,
                   updateListeners>>

NextEarly ==
    \/ startGameEarly
    \/ \E spawn \in BOOLEAN : updateEarly(spawn)
    \/ \E b \in BombIds : catchBombEarly(b)
    \/ \E b \in BombIds : animationCompleteEarly(b)
    \/ restartGameEarly

SpecEarly == InitEarly /\ [][NextEarly]_vars

\* ==== Properties ==========================================================

\* A bomb object that the bombs list no longer holds: it was dropped by
\* restartGame while its explosion animation was still running.
Discarded(b) == bomb[b].alive /\ b \notin bombs

\* C1: GameOver is entered exactly once per round and precisely when lives
\* first reaches 0: endGame runs in the step in which loseLife takes lives
\* from 1 to 0 and in no other step, never a second time before the next
\* restartGame, and the game-over screen is only shown after one run.
C1_GameOverOnce ==
    [][ /\ (endGameCount' > endGameCount) <=> (lives = 1 /\ lives' = 0)
        /\ endGameCount' <= 1
        /\ (screen' = "gameover") <=> (endGameCount' = 1) ]_vars

\* A floor-hit explosion completed during GameOver and endGame did not run
\* again.
C1_Witness ==
    /\ lastOp = "complete:floor"
    /\ screen = "gameover"
    /\ endGameCount = 1

\* C2: from the step endGame runs until the next restartGame neither score
\* nor lives changes, so the score shown on the game-over screen and sent to
\* the leaderboard stays the score of the round.
C2_FrozenInGameOver ==
    [][ (screen' = "gameover") =>
          /\ score' = finalScore'
          /\ (screen = "gameover" => score' = score /\ lives' = lives) ]_vars

\* C3: the completion of the explosion animation of a bomb created before
\* the last restartGame changes nothing of the new round.
C3_LateCompletionNoOp ==
    [][ \A b \in BombIds :
          (Discarded(b) /\ bomb[b].anim = "exploding"
             /\ bomb'[b].anim # "exploding")
          => UNCHANGED <<score, lives, spawnRate, speed, bombs>> ]_vars

\* C4: a pointerdown on a bomb that already left Falling is a no-op: no
\* step changes the callback that the completion of an exploded bomb's
\* animation will run (a floor-hit still costs its life, grants no point).
C4_ExplodedBombKeepsCallback ==
    [][ \A b \in BombIds :
          (bomb[b].hasExploded /\ bomb'[b].hasExploded)
          => bomb'[b].onComplete = bomb[b].onComplete ]_vars

\* C5: lives is an integer between 0 and config.game.initialLives.
C5_LivesInRange == lives \in 0..InitialLives

\* loseLife ran with no life left (a floor-hit completing in GameOver).
C5_Witness ==
    /\ lastOp = "complete:floor"
    /\ lives = 0

\* C6: lives is 0 exactly in GameOver: while playing lives > 0, and from
\* endGame to the next restartGame lives = 0.
C6_LivesZeroIffGameOver ==
    /\ isPlaying => lives > 0
    /\ (screen = "gameover") <=> (lives = 0)

\* endGame just ran on the last life.
C6_Witness ==
    /\ lastOp = "complete:endGame"
    /\ ~isPlaying
    /\ lives = 0

\* C7: a duplicate catch gives no second point: a step raises the score by
\* at most 1 and only by consuming the running explosion animation of one
\* bomb whose catch callback is armed (that bomb is gone afterwards),
\* difficulty rises only in such a step and by one increment, a stopped
\* animation never runs again, and a repeated pointerdown changes neither
\* score nor difficulty.
C7_OnePointPerBomb ==
    [][ /\ (score' > score \/ spawnRate' > spawnRate \/ speed' > speed) =>
              /\ score' = score + 1
              /\ spawnRate' <= spawnRate + SpawnRateIncrease
              /\ speed' <= speed + SpeedIncrease
              /\ \E b \in BombIds :
                    /\ bomb[b].anim = "exploding"
                    /\ bomb[b].onComplete = "catch"
                    /\ bomb'[b] = NoBomb
                    /\ \A c \in BombIds \ {b} : bomb'[c] = bomb[c]
        /\ \A b \in BombIds :
              bomb[b].anim = "stopped" => bomb'[b].anim # "exploding"
        /\ (lastOp' = "catchBomb:again") =>
              UNCHANGED <<score, spawnRate, speed, lives>> ]_vars

\* A bomb whose catch callback was already armed was clicked once more and
\* its animation is still to complete.
C7_Witness ==
    /\ lastOp = "catchBomb:again"
    /\ PendingCatches > 0

\* C8: in the earlier Game variants the GameOver transition happens once
\* per round: endGame does not run a second time before a restart, however
\* many floor-hit explosions were still running when lives reached 0.
C8_EarlyGameOverOnce == endGameCount <= 1

\* C9: difficulty is bounded by config.difficulty.maxSpawnRate and maxSpeed.
C9_DifficultyBounded ==
    /\ spawnRate <= MaxSpawnRate
    /\ speed <= MaxSpeed

\* A catch completed with both maxima already reached.
C9_Witness ==
    /\ lastOp = "complete:catch"
    /\ score > (MaxSpeed - InitialSpeed) \div SpeedIncrease
    /\ score > (MaxSpawnRate - InitialSpawnRate) \div SpawnRateIncrease
    /\ spawnRate = MaxSpawnRate
    /\ speed = MaxSpeed

\* C10: difficulty is the clamped linear function of the score, in every
\* state, across game over and restart.
C10_DifficultyOfScore ==
    /\ spawnRate = Min(MaxSpawnRate, InitialSpawnRate + score * SpawnRateIncrease)
    /\ speed = Min(MaxSpeed, InitialSpeed + score * SpeedIncrease)

\* A catch completed past the point where spawnRate saturates and before
\* the point where speed does: one component clamped, the other still linear.
C10_Witness ==
    /\ lastOp = "complete:catch"
    /\ InitialSpawnRate + score * SpawnRateIncrease > MaxSpawnRate
    /\ InitialSpeed + score * SpeedIncrease < MaxSpeed
    /\ spawnRate = MaxSpawnRate

\* C11: the difficulty is recomputed once per successful catch and by
\* nothing else: spawnRate and speed are raised by one increment each
\* (clamped at the maxima) in the step that completes a catch, together
\* with the point; startGame and restartGame set them to the initial
\* values; ticks, spawns, floor-hit completions, endGame and clicks leave
\* them alone.
C11_DifficultyOnlyOnCatch ==
    [][ /\ lastOp' = "complete:catch" =>
              /\ spawnRate' = Min(MaxSpawnRate, spawnRate + SpawnRateIncrease)
              /\ speed' = Min(MaxSpeed, speed + SpeedIncrease)
              /\ score' = score + 1
        /\ lastOp' \in {"startGame", "restartGame"} =>
              /\ spawnRate' = InitialSpawnRate
              /\ speed' = InitialSpeed
        /\ lastOp' \notin {"complete:catch", "startGame", "restartGame"} =>
              UNCHANGED <<spawnRate, speed>> ]_vars

\* A floor-hit explosion completed in a round with one catch: a life is
\* gone and the difficulty is still one step above the initial one.
C11_Witness ==
    /\ lastOp = "complete:floor"
    /\ lives < InitialLives
    /\ score = 1
    /\ spawnRate = InitialSpawnRate + SpawnRateIncrease
    /\ speed = InitialSpeed + SpeedIncrease

\* C12: restartGame brings the round back to its initial values at once:
\* score 0, lives 9, initial spawnRate and speed, an empty bombs list,
\* isPlaying true, whatever the state it is clicked in.
C12_RestartResets ==
    [][ lastOp' = "restartGame" =>
          /\ score' = 0
          /\ lives' = InitialLives
          /\ spawnRate' = InitialSpawnRate
          /\ speed' = InitialSpeed
          /\ bombs' = {}
          /\ isPlaying'
          /\ screen' = "game" ]_vars

\* Replay was clicked while the list still held a bomb: the list is empty
\* and the bomb object is left behind.
C12_Witness ==
    /\ lastOp = "restartGame"
    /\ bombs = {}
    /\ \E b \in BombIds : Discarded(b)

\* C13: registerScore is called once in the step that runs endGame and in
\* no other step: not on a catch, not on restart, not when an explosion
\* completes late.
C13_RegisteredOnlyByEndGame ==
    [][ /\ lastOp' = "complete:endGame" =>
              tally'.registered = tally.registered + 1
        /\ lastOp' \in {"startGame", "restartGame"} => tally'.registered = 0
        /\ lastOp' \notin {"complete:endGame", "startGame", "restartGame"} =>
              tally'.registered = tally.registered
        /\ screen' = "gameover" => tally'.registered = 1 ]_vars

\* A catch completed after endGame: the score moved and nothing was
\* registered again.
C13_Witness ==
    /\ lastOp = "complete:catch"
    /\ screen = "gameover"
    /\ tally.registered = 1

\* No explosion animation is running.
Settled == \A b \in BombIds : bomb[b].anim # "exploding"

\* C14: in a round with c bombs clicked while falling, f other bombs that
\* reached the floor while falling and no other click, once all animations
\* have completed: with f < 9 the score is c, lives is 9 - f, spawnRate
\* and speed are c steps above the initial values and the round is still
\* being played; with f = 9 the game is over with score c.
C14_RoundOutcome ==
    (screen # "start" /\ ~tally.extra /\ Settled) =>
        /\ tally.missed < InitialLives =>
              /\ score = tally.caught
              /\ lives = InitialLives - tally.missed
              /\ spawnRate = InitialSpawnRate + tally.caught * SpawnRateIncrease
              /\ speed = InitialSpeed + tally.caught * SpeedIncrease
              /\ isPlaying
        /\ tally.missed = InitialLives =>
              /\ screen = "gameover"
              /\ score = tally.caught

\* C15: a tick outside Playing is a no-op: no bomb moves, none is created,
\* and score, lives, spawnRate and speed stay as they are.
C15_IdleTickNoOp ==
    [][ (lastOp' = "update" /\ ~isPlaying) =>
            UNCHANGED <<bombs, bomb, score, lives, spawnRate, speed>> ]_vars

\* A tick during GameOver with a bomb of the list still above the floor.
C15_Witness ==
    /\ lastOp = "update"
    /\ ~isPlaying
    /\ \E b \in bombs : ~pastFloor(moveBomb(bomb[b]))

\* C16: from endGame to the next restartGame every bomb of the bombs list
\* has hasExploded set.
C16_AllExplodedInGameOver ==
    screen = "gameover" => \A b \in bombs : bomb[b].hasExploded

\* endGame exploded a bomb that was still falling.
C16_Witness ==
    /\ lastOp = "complete:endGame"
    /\ \E b \in bombs : bomb[b].hasExploded /\ bomb[b].onComplete = "none"

\* C17: a bomb that has left Falling is out of the bombs list and off the
\* stage once its explosion animation has completed.
C17_ExplodedBombRemoved ==
    \A b \in BombIds :
        (bomb[b].alive /\ bomb[b].hasExploded /\ bomb[b].anim = "stopped") =>
            (b \notin bombs /\ ~bomb[b].onStage)

\* C18: the callback-based Bomb invokes onHitFloor at most once between
\* one initialize and the next, however many ticks follow the one in which
\* y reached floorY.
C18_HitFloorOnce == entity.floorHits <= 1

\* C19: for the callback-based Bomb a catch and a floor hit exclude each
\* other: once onCatch has been signalled the bomb is not moved any more
\* and onHitFloor is never signalled, and once onHitFloor has been
\* signalled onCatch never is (until the next initialize).
C19_CatchExcludesFloorHit ==
    [][ lastOp' # "initialize" =>
          /\ entity.catches > 0 =>
                /\ entity'.x = entity.x /\ entity'.y = entity.y
                /\ entity'.floorHits = entity.floorHits
          /\ entity.floorHits > 0 => entity'.catches = entity.catches ]_vars

\* C20: between one initialize and the next the callback-based Bomb invokes
\* onCatch at most once, and never after explode() has been called.
C20_CatchOnce ==
    [][ /\ entity'.catches <= 1
        /\ entity'.catches > entity.catches => ~entity.explodeCalled ]_vars

\* A pointerdown arrived after the bomb's one catch and after a call of
\* explode(), and was not counted.
C20_Witness ==
    /\ lastOp = "pointerdown:ignored"
    /\ entity.catches = 1
    /\ entity.explodeCalled

\* Steps in which bomb.update ran.
UpdateOps == {"Bomb.update", "Bomb.update:exploded"}

\* C21: explode() of the callback-based Bomb is idempotent: the first call
\* sets hasExploded and starts the explosion animation, a later call changes
\* nothing, the animation is started and the finished event signalled at
\* most once, and only initialize takes hasExploded back to false.
C21_ExplodeIdempotent ==
    [][ /\ (lastOp' = "Bomb.explode" /\ entity.hasExploded) => entity' = entity
        /\ (lastOp' = "Bomb.explode" /\ ~entity.hasExploded) =>
              /\ entity'.hasExploded
              /\ entity'.anim = "exploding"
              /\ entity'.plays = 1
        /\ entity'.plays <= 1
        /\ entity'.finished <= 1
        /\ (entity.hasExploded /\ ~entity'.hasExploded) =>
              lastOp' = "initialize" ]_vars

\* explode() was called again after the explosion had completed: the
\* animation stayed stopped.
C21_Witness ==
    /\ lastOp = "Bomb.explode"
    /\ entity.anim = "stopped"
    /\ entity.finished = 1
    /\ entity.plays = 1

\* C22: update of an exploded callback-based Bomb is a no-op: x, y, vx, vy
\* and rotation stay as they are and no floor hit is signalled, whatever
\* deltaTime and the position.
C22_ExplodedUpdateNoOp ==
    [][ (lastOp' \in UpdateOps /\ entity.hasExploded) =>
          /\ entity'.x = entity.x /\ entity'.y = entity.y
          /\ entity'.vx = entity.vx /\ entity'.vy = entity.vy
          /\ entity'.rotation = entity.rotation
          /\ entity'.floorHits = entity.floorHits ]_vars

\* An exploded bomb at or below the floor line was ticked with a deltaTime
\* other than 0.
C22_Witness ==
    /\ lastOp = "Bomb.update:exploded"
    /\ entity.hasExploded
    /\ entity.y >= EntityFloorY
    /\ entity.dt # 0

\* C23: onExplosionComplete is invoked only after explode() was called on
\* the bomb since its last initialize; a completion that arrives while
\* hasExploded is false signals nothing.
C23_FinishedAfterExplode ==
    [][ /\ entity'.finished > entity.finished =>
              (entity.explodeCalled /\ entity.hasExploded)
        /\ (lastOp' \in {"onComplete", "onComplete:stray"}
              /\ ~entity.hasExploded) =>
              entity'.finished = entity.finished ]_vars

\* A completion arrived for a bomb that was initialized and never exploded.
C23_Witness ==
    /\ lastOp = "onComplete:stray"
    /\ entity.anim = "looping"
    /\ ~entity.explodeCalled
    /\ entity.finished = 0

\* C24: the stored leaderboard is the top scores in descending order,
\* capped at 5: it is sorted descending, its length is min(n, 5) for the n
\* scores put on it so far, and no score that is missing from it is larger
\* than one that is on it.
C24_LeaderboardTopFive ==
    LET board == loadScores(storage.item)
    IN  /\ \A i \in 1..(Len(board) - 1) : board[i] >= board[i + 1]
        /\ Len(board) = Min(TotalRegistered, MaxEntries)
        /\ \A v \in 0..MaxPoints :
              /\ CountOf(board, v) <= storage.all[v]
              /\ CountOf(board, v) < storage.all[v] =>
                    \A i \in DOMAIN board : board[i] >= v

\* A score was registered on a full leaderboard and pushed a smaller one
\* off it.
C24_Witness ==
    /\ lastOp = "registerScore"
    /\ TotalRegistered > MaxEntries
    /\ LET board == loadScores(storage.item)
       IN  /\ Len(board) = MaxEntries
           /\ board[1] > board[MaxEntries]
           /\ storage.all[board[MaxEntries]] = CountOf(board, board[MaxEntries])

\* C25: a storage failure in endGame changes nothing for the player: when
\* localStorage throws under registerScore or getLeaderboard the step ends
\* as it does without the failure (game-over screen with the replay button,
\* score as it was, lives 0), and a restartGame after it starts a normal
\* round.
C25_StorageFailureTolerated ==
    [][ /\ (lastOp' = "complete:endGame" /\ tally'.fault # "none") =>
              /\ screen' = "gameover"
              /\ ~isPlaying'
              /\ score' = score
              /\ finalScore' = score
              /\ lives' = 0
        /\ tally'.fault # "none" => screen' = "gameover"
        /\ (tally.fault # "none" /\ lastOp' = "restartGame") =>
              /\ screen' = "game"
              /\ isPlaying'
              /\ score' = 0
              /\ lives' = InitialLives
              /\ spawnRate' = InitialSpawnRate
              /\ speed' = InitialSpeed
              /\ bombs' = {} ]_vars

\* endGame ran while localStorage.getItem threw, with a point on the score:
\* the game-over screen is up.
C25_Witness ==
    /\ lastOp = "complete:endGame"
    /\ tally.fault = "getItem"
    /\ screen = "gameover"
    /\ score > 0

\* C26: asset loading never fails the game: the loader's promise resolves
\* and never rejects; it resolves with the loaded assets only when every
\* texture has loaded and with the fallback value (no idle and explosion
\* textures, the empty floor texture, no sounds) otherwise; and once it has
\* resolved the bootstrap can show the start screen.
C26_LoadingNeverFails ==
    /\ loading.outcome # "rejected"
    /\ loading.outcome = "resolved" =>
          /\ loading.assets \in {Loaded, Fallback}
          /\ loading.assets = Loaded =>
                \A t \in TextureIds : loading.textures[t] = "loaded"
          /\ (\E t \in TextureIds : loading.textures[t] # "loaded") =>
                /\ loading.assets.idle = <<>>
                /\ loading.assets.explosion = <<>>
                /\ loading.assets.floor = EmptyTexture
                /\ loading.assets.sounds = {}
    /\ (\E t \in TextureIds : loading.textures[t] = "rejected") =>
          loading.outcome = "pending" \/ loading.assets = Fallback
    /\ screen = "start" => loading.outcome = "resolved"
    /\ (screen = "loading" /\ loading.loader = "AssetLoader.load"
          /\ loading.outcome = "resolved") => ENABLED bootstrap

\* A texture was rejected and the start screen is up, on the fallback
\* assets.
C26_Witness ==
    /\ lastOp = "bootstrap"
    /\ screen = "start"
    /\ loading.assets = Fallback
    /\ \E t \in TextureIds : loading.textures[t] = "rejected"

\* C27: a negative deltaTime counts as zero displacement: update of a
\* falling bomb with deltaTime < 0 leaves x and y unchanged.
C27_NegativeDeltaIsZero ==
    [][ (lastOp' = "Bomb.update" /\ entity'.dt < 0) =>
          (entity'.x = entity.x /\ entity'.y = entity.y) ]_vars

\* C28: wall reflection keeps the speed: after any updates vx is the value
\* initialize computed or its opposite, vy is the value initialize computed,
\* and vx changes sign only in a tick in which x left [0, canvasWidth].
C28_ReflectionKeepsSpeed ==
    [][ lastOp' \in UpdateOps =>
          /\ entity'.vx \in {entity.vx0, -entity.vx0}
          /\ entity'.vy = entity.vy0
          /\ entity'.vx0 = entity.vx0 /\ entity'.vy0 = entity.vy0
          /\ entity'.vx # entity.vx =>
                /\ entity'.vx = -entity.vx
                /\ entity.x + entity.vx * entity'.dt \notin 0..CanvasWidth
                /\ entity'.x \in {0, CanvasWidth} ]_vars

\* The bomb has just bounced off a wall and moves the other way.
C28_Witness ==
    /\ lastOp = "Bomb.update"
    /\ entity.vx0 # 0
    /\ entity.vx = -entity.vx0
    /\ entity.x \in {0, CanvasWidth}

\* C29: in the config-based Game an exploded bomb is not moved any more:
\* a tick leaves the position of every bomb whose hasExploded is set as it
\* was.
C29_ExplodedBombStaysPut ==
    [][ lastOp' = "update" =>
          \A b \in BombIds :
              bomb[b].hasExploded => bomb'[b].y = bomb[b].y ]_vars

\* C30 as stated: every update with deltaTime >= 0 of a falling bomb with
\* vy > 0 leaves y strictly greater than before.
C30_FallsOnEveryTick ==
    [][ (lastOp' = "Bomb.update" /\ entity'.dt >= 0 /\ entity.vy > 0) =>
          entity'.y > entity.y ]_vars

\* C30, amended: every update with deltaTime > 0 of a falling bomb with
\* vy > 0 leaves y strictly greater than before, and an update with
\* deltaTime = 0 leaves y as it was.
C30_MonotonicFall ==
    [][ (lastOp' = "Bomb.update" /\ entity.vy > 0) =>
          /\ entity'.dt > 0 => entity'.y > entity.y
          /\ entity'.dt = 0 => entity'.y = entity.y ]_vars

\* A falling bomb was ticked with a positive deltaTime and is below the row
\* it was initialized in.
C30_Witness ==
    /\ lastOp = "Bomb.update"
    /\ entity.dt > 0
    /\ entity.vy > 0
    /\ entity.y >= entity.vy * entity.dt

\* C31: the callback-based Bomb stays on the playfield: after every update
\* x is within [0, canvasWidth], and after an update with deltaTime >= 0
\* that took x past a wall the bomb is on that wall and vx points back into
\* the playfield.
C31_StaysOnPlayfield ==
    [][ lastOp' \in UpdateOps =>
          LET nx == entity.x + entity.vx * entity'.dt
              moved == ~entity.hasExploded /\ entity'.dt >= 0
          IN  /\ entity'.x \in 0..CanvasWidth
              /\ (moved /\ nx < 0) => (entity'.x = 0 /\ entity'.vx >= 0)
              /\ (moved /\ nx > CanvasWidth) =>
                    (entity'.x = CanvasWidth /\ entity'.vx <= 0) ]_vars

\* A bomb sent to the right was ticked forward and is on the right wall,
\* moving left.
C31_Witness ==
    /\ lastOp = "Bomb.update"
    /\ entity.dt > 0
    /\ entity.vx0 > 0
    /\ entity.vx < 0
    /\ entity.x = CanvasWidth

C33_BombLeavesFalling ==
    \A b \in BombIds :
       (b \in bombs /\ bomb[b].alive /\ ~bomb[b].hasExploded)
          ~> (bomb[b].hasExploded \/ b \notin bombs)

\* A frame has just taken a bomb nobody clicked past the floor line:
\* explodeBomb armed its life-loss callback.
C33_Witness ==
    /\ lastOp = "update"
    /\ isPlaying
    /\ \E b \in bombs :
          /\ pastFloor(bomb[b])
          /\ bomb[b].hasExploded
          /\ bomb[b].anim = "exploding"
          /\ bomb[b].onComplete = "floor"

\* C34: over any sequence of start-button clicks, game overs and
\* replay-button clicks Game.update is registered on the ticker at most
\* once, so a frame advances each bomb of the list at most once.
C34_UpdateRegisteredOnce == updateListeners <= 1

\* A round ended and the replay button was clicked: the new round runs on
\* the registration of the first one.
C34_Witness ==
    /\ lastOp = "restartGame"
    /\ isPlaying
    /\ updateListeners = 1

TypeOK ==
    /\ screen \in {"loading", "start", "game", "gameover"}
    /\ isPlaying \in BOOLEAN
    /\ bombs \subseteq BombIds
    /\ \A b \in BombIds :
         /\ bomb[b].anim \in {"idle", "exploding", "stopped"}
         /\ bomb[b].onComplete \in {"none", "catch", "floor"}
         /\ bomb[b].y \in 0..(FloorY + 1)
    /\ score \in Nat
    /\ lives \in Int
    /\ endGameCount \in Nat
    /\ updateListeners \in Nat
====
